---------------------------- MODULE Spec2Model ----------------------------
(***************************************************************************)
(* Model of the weather API proxy ("API Proxy Service/main.py"): the       *)
(* per-provider circuit breaker, the fallback chain of GET /weather, and   *)
(* the heartbeat broadcaster with its WebSocket registry.                  *)
(*                                                                         *)
(* The proxy runs on one asyncio event loop: a coroutine runs without      *)
(* interruption up to its next await on I/O, so every action below is the  *)
(* code between two such awaits.                                           *)
(*                                                                         *)
(*   Spec           GET /weather requests against the two providers, with  *)
(*                  no heartbeat subscriber connected.                     *)
(*   SpecScenario   one sequential client, and a monitor of the primary    *)
(*                  provider's breaker following one timed scenario.       *)
(*   SpecBroadcast  notify_heartbeat against /ws/heartbeat connections.    *)
(*   SpecProbe      as Spec, with an observer of the GETs started after a  *)
(*                  breaker reset.                                         *)
(*   SpecMonitor    the two loops of "HeartBeat Service/main.py" and its   *)
(*                  shutdown event.                                        *)
(***************************************************************************)
EXTENDS Integers, Sequences, FiniteSets, Bags, TLC

VARIABLES
    now,                \* datetime.datetime.now(), in seconds
    failure_counts,     \* failure_counts[api]
    last_failure_time,  \* last_failure_time[api], None when unset
    active_api,         \* the global active_api
    inflight,           \* bag of the get_weather calls suspended in client.get
    returned,           \* what the get_weather call that returned in the last step did
    scn,                \* monitor: how far the primary's breaker has followed the scenario
    websocket_clients,  \* the list websocket_clients
    hpc,                \* per socket: state of its websocket_endpoint handler
    ppc,                \* per publisher: state of its notify_heartbeat call
    pidx,               \* per publisher: position of the list iterator
    pcur,               \* per publisher: the socket whose send_text is awaited
    pdisc,              \* per publisher: disconnected_clients
    attempted,          \* per publisher: sockets send_text was called on
    steady,             \* per publisher: sockets registered since the call began
    trial,              \* observer, per provider: GETs started since its breaker reset
    should_shutdown,    \* monitor service: the Event should_shutdown is set
    poll_pc,            \* ping_health_endpoint: where the loop is suspended
    poll_backoff,       \* ping_health_endpoint: its local backoff
    poll_last,          \* how the last health check ended
    poll_alert,         \* whether the last health check logged an [ALERT]
    poll_fails,         \* health checks failed in a row, counted up to MaxFails
    poll_woke,          \* what ended the poll loop's last wait
    ws_pc,              \* listen_to_websocket: where the loop is suspended
    ws_backoff,         \* listen_to_websocket: its local backoff
    ws_last,            \* what listen_to_websocket did last
    ws_woke             \* what ended the stream loop's last wait

ovars == <<now, failure_counts, last_failure_time, active_api, inflight, returned>>
bvars == <<websocket_clients, hpc, ppc, pidx, pcur, pdisc, attempted, steady>>
mvars == <<should_shutdown, poll_pc, poll_backoff, poll_last, poll_alert,
           poll_fails, poll_woke, ws_pc, ws_backoff, ws_last, ws_woke>>
xvars == <<trial, mvars>>
vars == <<ovars, scn, bvars, xvars>>

---------------------------------------------------------------------------
(* Program constants *)

MAX_FAILURES == 3
RESET_TIMEOUT == 300
None == -1
MAX_BACKOFF == 60

Chain == <<"weatherapi", "weatherstack">>
Providers == {Chain[i] : i \in 1..Len(Chain)}

(* Bounds *)

NumRequests == 2
MaxEarly == 1
MaxLate == 0
ScnEarly == 3
ScnLate == 2
NumSockets == 2
NumPublishers == 2
MaxFails == 7

\* The query parameter of GET /weather: data the code only passes through.
\* Spec fixes it; SpecScenario varies it.
Cities == {"London"}
ScnCities == {"London", "Paris"}
Sockets == 1..NumSockets
Publishers == 1..NumPublishers

\* The instants the clock is sampled at: the first seconds, and the seconds
\* around the expiry of a timer started in them.
Instants(early, late) == (0..early) \cup (RESET_TIMEOUT..(RESET_TIMEOUT + late))
Times == Instants(MaxEarly, MaxLate)
ScnTimes == Instants(ScnEarly, ScnLate)

\* What one outbound GET can end in.
Outcomes == {"ok", "rate_limit", "auth", "http_error", "body_error",
             "bad_json", "bad_shape", "timeout", "connect_error"}

---------------------------------------------------------------------------
(* Circuit breaker *)

\* A breaker state is [fc |-> failure_counts, lft |-> last_failure_time].

\* Variant of the breaker check that compares elapsed <= RESET_TIMEOUT.
check_circuit_breaker_strict(b, api, t) ==
    IF b.fc[api] >= MAX_FAILURES /\ b.lft[api] # None
    THEN IF t - b.lft[api] <= RESET_TIMEOUT
         THEN [ok |-> FALSE, b |-> b]
         ELSE [ok |-> TRUE,
               b |-> [fc |-> [b.fc EXCEPT ![api] = 0],
                      lft |-> [b.lft EXCEPT ![api] = None]]]
    ELSE [ok |-> TRUE, b |-> b]

check_circuit_breaker(b, api, t) ==
    IF b.fc[api] >= MAX_FAILURES
    THEN IF b.lft[api] # None
         THEN IF t - b.lft[api] < RESET_TIMEOUT
              THEN [ok |-> FALSE, b |-> b]
              ELSE [ok |-> TRUE,
                    b |-> [fc |-> [b.fc EXCEPT ![api] = 0],
                           lft |-> [b.lft EXCEPT ![api] = None]]]
         ELSE [ok |-> TRUE, b |-> b]
    ELSE [ok |-> TRUE, b |-> b]

\* Variant of the failure record that leaves last_failure_time alone.
record_failure_no_time(b, api, t) ==
    [fc |-> [b.fc EXCEPT ![api] = @ + 1], lft |-> b.lft]

\* failure_counts[api] += 1; last_failure_time[api] = datetime.datetime.now()
record_failure(b, api, t) ==
    [fc |-> [b.fc EXCEPT ![api] = @ + 1],
     lft |-> [b.lft EXCEPT ![api] = t]]

\* Variant of the success record that leaves the count alone.
record_success_keep(b, api) == b

\* failure_counts[api] = 0
record_success(b, api) ==
    [fc |-> [b.fc EXCEPT ![api] = 0], lft |-> b.lft]


---------------------------------------------------------------------------
(* Provider adapters: fetch_from_weatherapi / fetch_from_weatherstack *)

\* The body of fetch_from_<api> from the completion of client.get on: what it
\* does to the breaker state and how it ends (data returned, or the class of
\* the exception that leaves it).
fetch_outcome(b, api, kind, t) ==
    CASE kind = "ok" ->
            \* lines 94-96 / 125-127: count reset, data returned
            [b |-> record_success(b, api), raised |-> "none"]
      [] kind = "rate_limit" ->
            \* 429: raised inside the try, recorded by the except clause
            [b |-> record_failure(b, api, t), raised |-> "HTTPStatusError"]
      [] kind = "auth" ->
            \* 401/403: recorded before the raise and again by the except clause
            [b |-> record_failure(record_failure(b, api, t), api, t),
             raised |-> "HTTPStatusError"]
      [] kind = "http_error" ->
            \* raise_for_status(): recorded by the except clause
            [b |-> record_failure(b, api, t), raised |-> "HTTPStatusError"]
      [] kind = "body_error" ->
            \* "error" in data: recorded, then a plain Exception
            [b |-> record_failure(b, api, t), raised |-> "Exception"]
      [] kind = "bad_json" ->
            \* response.json() raises: not an HTTPStatusError, nothing recorded
            [b |-> b, raised |-> "Exception"]
      [] kind = "bad_shape" ->
            \* the count is reset, then the return expression raises KeyError
            [b |-> record_success(b, api), raised |-> "Exception"]
      [] OTHER ->
            \* "timeout", "connect_error": httpx.RequestError out of client.get
            [b |-> b, raised |-> "RequestError"]

---------------------------------------------------------------------------
(* GET /weather *)

NoResp == [status |-> 0, source |-> "none", city |-> "none",
           temperature |-> "none", condition |-> "none"]

\* The provider's payload as returned by get_weather (status 200); the city is
\* the provider's location name.
DataResp(api) == [status |-> 200, source |-> api, city |-> "location.name",
                  temperature |-> "value", condition |-> "text"]

\* JSONResponse(status_code=503, ...) of lines 171-177
StubResp(q) == [status |-> 503, source |-> "stub", city |-> q,
                temperature |-> "null", condition |-> "Unavailable"]

\* What the framework answers when an exception leaves get_weather.
ErrorResp == [status |-> 500, source |-> "error", city |-> "none",
              temperature |-> "none", condition |-> "none"]

\* The events get_weather passes to notify_heartbeat, by kind and provider.
Event(k, api) == [kind |-> k, api |-> api]

\* Variant of the selection event that always names the primary.
selected_event_primary(api) == Event("ProviderSelected", Chain[1])

\* "Primary API active: ..." / "Fallback API active: ..."
selected_event(api) == Event("ProviderSelected", api)

\* "<api> circuit breaker open, skipping"
skipped_event(api) == Event("ProviderSkippedBreakerOpen", api)

\* "<api> failed: ..." / "Unexpected error with <api>: ..."
failed_event(api) == Event("ProviderFailed", api)

\* "All APIs failed. Returning stub response."
exhausted_event == Event("AllExhausted", "none")

\* Variant of the except clauses without the `except Exception` branch.
on_exception_narrow(raised) ==
    IF raised \in {"HTTPStatusError", "RequestError", "HTTPException"}
    THEN "failed"
    ELSE "propagate"

\* The except clauses of a provider's try block in get_weather: the first
\* takes the HTTP and transport classes, the second every other Exception.
on_exception(raised) ==
    IF raised \in {"HTTPStatusError", "RequestError", "HTTPException"}
    THEN "failed"
    ELSE IF raised = "Exception"
    THEN "unexpected"
    ELSE "propagate"

\* A get_weather call: the provider it is suspended on (its index in Chain),
\* the events it has passed to notify_heartbeat, the providers it has sent a
\* GET to and how each GET ended ("ok" or "fail"), the breakers it has
\* consulted, and its query.
NewCall(q) ==
    [cur |-> 0, events |-> <<>>, calls |-> <<>>, outcomes |-> <<>>,
     checked |-> {}, city |-> q]

\* get_weather from the try block of provider Chain[i] up to its next await
\* on client.get, or to its return: b is the breaker state, c the call so
\* far, t the time.
RECURSIVE run_chain(_, _, _, _)
RECURSIVE run_chain_abort(_, _, _, _)

\* Variant of the chain that gives up at the first open breaker.
run_chain_abort(i, b, c, t) ==
    IF i > Len(Chain)
    THEN [pc |-> "done", b |-> b,
          call |-> [c EXCEPT !.cur = 0, !.events = Append(@, exhausted_event)],
          resp |-> StubResp(c.city)]
    ELSE LET api == Chain[i]
             c1 == check_circuit_breaker(b, api, t)
             seen == [c EXCEPT !.checked = @ \cup {api}]
         IN IF ~c1.ok
            THEN run_chain_abort(Len(Chain) + 1, c1.b,
                           [seen EXCEPT !.events = Append(@, skipped_event(api))], t)
            ELSE [pc |-> "fetch", b |-> c1.b,
                  call |-> [seen EXCEPT !.cur = i, !.calls = Append(@, api)],
                  resp |-> NoResp]

run_chain(i, b, c, t) ==
    IF i > Len(Chain)
    THEN \* lines 169-177
         [pc |-> "done", b |-> b,
          call |-> [c EXCEPT !.cur = 0, !.events = Append(@, exhausted_event)],
          resp |-> StubResp(c.city)]
    ELSE LET api == Chain[i]
             c1 == check_circuit_breaker(b, api, t)     \* line 140 / 157
             c2 == check_circuit_breaker(c1.b, api, t)  \* line 73 / 103
             seen == [c EXCEPT !.checked = @ \cup {api}]
         IN IF ~c1.ok
            THEN run_chain(i + 1, c1.b,
                           [seen EXCEPT !.events = Append(@, skipped_event(api))], t)
            ELSE IF ~c2.ok
            THEN \* fetch_from_<api> raises HTTPException(503), caught at 147 / 164
                 run_chain(i + 1, c2.b,
                           [seen EXCEPT !.events = Append(@, failed_event(api))], t)
            ELSE [pc |-> "fetch", b |-> c2.b,
                  call |-> [seen EXCEPT !.cur = i, !.calls = Append(@, api)],
                  resp |-> NoResp]

\* Variant of the success path that publishes no event.
on_success_silent(c, api) == c

\* Lines 142-144 / 159-161, on the call record: the event of the selection.
on_success(c, api) == [c EXCEPT !.events = Append(@, selected_event(api))]

Breaker == [fc |-> failure_counts, lft |-> last_failure_time]

\* A get_weather call that has returned: its response and what it did; prior
\* is the count of the provider that succeeded as the success was recorded.
Returned(rsp, c, prior) ==
    [resp |-> rsp, events |-> c.events, calls |-> c.calls,
     outcomes |-> c.outcomes, checked |-> c.checked, city |-> c.city,
     prior |-> prior]

Nothing == Returned(NoResp, NewCall("none"), 0)

\* The call that ran to s (a result of run_chain) either suspends in
\* client.get or returns.
Settle(rest, s) ==
    /\ failure_counts' = s.b.fc
    /\ last_failure_time' = s.b.lft
    /\ IF s.pc = "fetch"
       THEN /\ inflight' = rest (+) SetToBag({s.call})
            /\ returned' = Nothing
       ELSE /\ inflight' = rest
            /\ returned' = Returned(s.resp, s.call, 0)

\* A request arrives while fewer than limit are being served: get_weather(q)
\* runs up to its first await.
Start(q, limit) ==
    /\ BagCardinality(inflight) < limit
    /\ Settle(inflight, run_chain(1, Breaker, NewCall(q), now))
    /\ UNCHANGED <<now, active_api>>

\* client.get of the suspended call c completes with outcome kind.
Respond(c, kind) ==
    /\ BagIn(c, inflight)
    /\ LET api == Chain[c.cur]
           f == fetch_outcome(Breaker, api, kind, now)
           rest == inflight (-) SetToBag({c})
           c1 == [c EXCEPT !.outcomes = Append(@, IF kind = "ok" THEN "ok" ELSE "fail")]
       IN IF f.raised = "none"
          THEN /\ active_api' = api
               /\ failure_counts' = f.b.fc
               /\ last_failure_time' = f.b.lft
               /\ inflight' = rest
               /\ returned' = Returned(DataResp(api), on_success(c1, api),
                                       failure_counts[api])
          ELSE IF on_exception(f.raised) = "propagate"
          THEN /\ failure_counts' = f.b.fc
               /\ last_failure_time' = f.b.lft
               /\ inflight' = rest
               /\ returned' = Returned(ErrorResp, c1, 0)
               /\ UNCHANGED active_api
          ELSE /\ Settle(rest, run_chain(c.cur + 1, f.b,
                                   [c1 EXCEPT !.events = Append(@, failed_event(api))],
                                   now))
               /\ UNCHANGED active_api
    /\ UNCHANGED now

\* Time passes, to a later instant of T.
Tick(T) ==
    /\ \E t \in T : t > now /\ now' = t
    /\ returned' = Nothing
    /\ UNCHANGED <<failure_counts, last_failure_time, active_api, inflight>>

\* In a step: the suspended call c is the one whose client.get completed.
Completed(c) == CopiesIn(c, inflight') < CopiesIn(c, inflight)

\* In a step: the call is (again) suspended in a client.get as c.
Suspended(c) == CopiesIn(c, inflight') > CopiesIn(c, inflight)

---------------------------------------------------------------------------
(* Specifications *)

Init ==
    /\ now = 0
    /\ failure_counts = [a \in Providers |-> 0]
    /\ last_failure_time = [a \in Providers |-> None]
    /\ active_api = "weatherapi"
    /\ inflight = EmptyBag
    /\ returned = Nothing
    /\ scn = 0
    /\ websocket_clients = <<>>
    /\ hpc = [w \in Sockets |-> "new"]
    /\ ppc = [p \in Publishers |-> "idle"]
    /\ pidx = [p \in Publishers |-> 0]
    /\ pcur = [p \in Publishers |-> 0]
    /\ pdisc = [p \in Publishers |-> <<>>]
    /\ attempted = [p \in Publishers |-> <<>>]
    /\ steady = [p \in Publishers |-> {}]
    /\ trial = [a \in Providers |-> -1]
    /\ should_shutdown = FALSE
    /\ poll_pc = "get"
    /\ poll_backoff = 1
    /\ poll_last = "none"
    /\ poll_alert = FALSE
    /\ poll_fails = 0
    /\ poll_woke = "none"
    /\ ws_pc = "connect"
    /\ ws_backoff = 1
    /\ ws_last = "none"
    /\ ws_woke = "none"

SpecTick == Tick(Times) /\ UNCHANGED <<scn, bvars, xvars>>

SpecStart == (\E q \in Cities : Start(q, NumRequests)) /\ UNCHANGED <<scn, bvars, xvars>>

SpecRespond ==
    /\ \E c \in BagToSet(inflight), kind \in Outcomes : Respond(c, kind)
    /\ UNCHANGED <<scn, bvars, xvars>>

Next == SpecTick \/ SpecStart \/ SpecRespond

Spec == Init /\ [][Next]_vars

---------------------------------------------------------------------------
(* The timed scenario: the primary provider fails once a second from t = 0  *)
(* until its breaker opens, the breaker is left alone until it resets, and *)
(* the next call to the provider fails.                                    *)

Primary == Chain[1]

\* scn = k, for k <= MAX_FAILURES: all that has been recorded on the primary's
\* breaker is k failures, the i-th at second i - 1. MAX_FAILURES + 1: the
\* breaker was then left untouched until a check reset it. MAX_FAILURES + 2:
\* after that reset exactly one call has recorded a failure. -1: the run has
\* left the scenario.
Watch ==
    LET d == failure_counts'[Primary] - failure_counts[Primary]
    IN IF d = 0 /\ last_failure_time'[Primary] = last_failure_time[Primary]
       THEN scn
       ELSE IF scn \in 0..(MAX_FAILURES - 1) /\ d = 1 /\ now = scn
       THEN scn + 1
       ELSE IF scn = MAX_FAILURES /\ failure_counts'[Primary] = 0
               /\ last_failure_time'[Primary] = None
       THEN MAX_FAILURES + 1
       ELSE IF scn = MAX_FAILURES + 1 /\ d > 0
       THEN MAX_FAILURES + 2
       ELSE -1

\* One client that sends its next request once the previous one has returned.
ScnTick == Tick(ScnTimes) /\ scn' = Watch /\ UNCHANGED <<bvars, xvars>>

ScnStart == (\E q \in ScnCities : Start(q, 1)) /\ scn' = Watch /\ UNCHANGED <<bvars, xvars>>

ScnRespond ==
    /\ \E c \in BagToSet(inflight), kind \in Outcomes : Respond(c, kind)
    /\ scn' = Watch
    /\ UNCHANGED <<bvars, xvars>>

ScnNext == ScnTick \/ ScnStart \/ ScnRespond

SpecScenario == Init /\ [][ScnNext]_vars

---------------------------------------------------------------------------
(* Heartbeat broadcaster: notify_heartbeat and /ws/heartbeat *)

Range(q) == {q[i] : i \in 1..Len(q)}

RECURSIVE Without(_, _)
\* list.remove(w): the list without the first occurrence of w
Without(q, w) ==
    IF q = <<>> THEN <<>>
    ELSE IF Head(q) = w THEN Tail(q)
    ELSE <<Head(q)>> \o Without(Tail(q), w)

RECURSIVE Pruned(_, _)
\* Lines 54-56: each socket of disc that is in the list is removed from it.
Pruned(q, disc) ==
    IF disc = <<>> THEN q
    ELSE Pruned(IF Head(disc) \in Range(q) THEN Without(q, Head(disc)) ELSE q,
                Tail(disc))

\* Every running notify_heartbeat call keeps, of the sockets registered since
\* it began, those still in the list.
Keep(list) == [p \in Publishers |-> steady[p] \cap Range(list)]

\* The for loop of notify_heartbeat, on the list as it is now, after i of its
\* positions have been visited: it suspends in the send_text of the next
\* socket, or it ends and the sockets marked in disc are removed (lines 54-56).
Iterate(p, i, disc, att, std) ==
    IF i < Len(websocket_clients)
    THEN /\ ppc' = [ppc EXCEPT ![p] = "send"]
         /\ pidx' = [pidx EXCEPT ![p] = i + 1]
         /\ pcur' = [pcur EXCEPT ![p] = websocket_clients[i + 1]]
         /\ pdisc' = [pdisc EXCEPT ![p] = disc]
         /\ attempted' = [attempted EXCEPT ![p] = att]
         /\ steady' = [steady EXCEPT ![p] = std]
         /\ UNCHANGED websocket_clients
    ELSE /\ ppc' = [ppc EXCEPT ![p] = "done"]
         /\ pidx' = [pidx EXCEPT ![p] = 0]
         /\ pcur' = [pcur EXCEPT ![p] = 0]
         /\ pdisc' = [pdisc EXCEPT ![p] = disc]
         /\ attempted' = [attempted EXCEPT ![p] = att]
         /\ websocket_clients' = Pruned(websocket_clients, disc)
         /\ steady' = [q \in Publishers |->
                          (IF q = p THEN std ELSE steady[q])
                              \cap Range(websocket_clients')]

\* get_weather calls notify_heartbeat(event).
Publish(p) ==
    /\ ppc[p] = "idle"
    /\ Iterate(p, 0, <<>>, <<>>, Range(websocket_clients))
    /\ UNCHANGED hpc

\* The awaited ws.send_text(event) ends: it returns, or it raises and the
\* socket is marked (lines 49-51); the loop goes on.
SendEnds(p, ok) ==
    /\ ppc[p] = "send"
    /\ ok => hpc[pcur[p]] # "exited"
    /\ Iterate(p, pidx[p],
               IF ok THEN pdisc[p] ELSE Append(pdisc[p], pcur[p]),
               Append(attempted[p], pcur[p]),
               steady[p])
    /\ UNCHANGED hpc

\* notify_heartbeat has returned to its caller.
PublishReturns(p) ==
    /\ ppc[p] = "done"
    /\ ppc' = [ppc EXCEPT ![p] = "idle"]
    /\ pdisc' = [pdisc EXCEPT ![p] = <<>>]
    /\ attempted' = [attempted EXCEPT ![p] = <<>>]
    /\ steady' = [steady EXCEPT ![p] = {}]
    /\ UNCHANGED <<websocket_clients, hpc, pidx, pcur>>

\* websocket_endpoint: accept() has returned; the socket is appended and the
\* handler suspends in the send_text of the welcome message (lines 205-209).
Connect(w) ==
    /\ hpc[w] = "new"
    /\ websocket_clients' = Append(websocket_clients, w)
    /\ hpc' = [hpc EXCEPT ![w] = "welcome"]
    /\ UNCHANGED <<ppc, pidx, pcur, pdisc, attempted, steady>>

\* The welcome message is sent: the handler enters the try block and suspends
\* in receive_text (lines 211-213).
Welcomed(w) ==
    /\ hpc[w] = "welcome"
    /\ hpc' = [hpc EXCEPT ![w] = "recv"]
    /\ UNCHANGED <<websocket_clients, ppc, pidx, pcur, pdisc, attempted, steady>>

\* The send_text of the welcome message raises: line 209 is outside the try
\* block, so the exception leaves the handler.
WelcomeFails(w) ==
    /\ hpc[w] = "welcome"
    /\ hpc' = [hpc EXCEPT ![w] = "exited"]
    /\ UNCHANGED <<websocket_clients, ppc, pidx, pcur, pdisc, attempted, steady>>

\* receive_text raises (the client has gone): lines 214-221 remove the socket.
Disconnect(w) ==
    /\ hpc[w] = "recv"
    /\ hpc' = [hpc EXCEPT ![w] = "exited"]
    /\ websocket_clients' = IF w \in Range(websocket_clients)
                            THEN Without(websocket_clients, w)
                            ELSE websocket_clients
    /\ steady' = Keep(websocket_clients')
    /\ UNCHANGED <<ppc, pidx, pcur, pdisc, attempted>>

BcastPublish == (\E p \in Publishers : Publish(p)) /\ UNCHANGED <<ovars, scn, xvars>>

BcastSendEnds ==
    (\E p \in Publishers, ok \in BOOLEAN : SendEnds(p, ok)) /\ UNCHANGED <<ovars, scn, xvars>>

BcastPublishReturns ==
    (\E p \in Publishers : PublishReturns(p)) /\ UNCHANGED <<ovars, scn, xvars>>

BcastConnect == (\E w \in Sockets : Connect(w)) /\ UNCHANGED <<ovars, scn, xvars>>

BcastWelcomed == (\E w \in Sockets : Welcomed(w)) /\ UNCHANGED <<ovars, scn, xvars>>

BcastWelcomeFails == (\E w \in Sockets : WelcomeFails(w)) /\ UNCHANGED <<ovars, scn, xvars>>

BcastDisconnect == (\E w \in Sockets : Disconnect(w)) /\ UNCHANGED <<ovars, scn, xvars>>

BcastNext ==
    \/ BcastPublish
    \/ BcastSendEnds
    \/ BcastPublishReturns
    \/ BcastConnect
    \/ BcastWelcomed
    \/ BcastWelcomeFails
    \/ BcastDisconnect

SpecBroadcast == Init /\ [][BcastNext]_vars

---------------------------------------------------------------------------
(* GET /health *)

\* Lines 183-184: the status reported for a provider.
circuit_status(a) == IF failure_counts[a] >= MAX_FAILURES THEN "open" ELSE "closed"

\* The body health() returns in the current state (the time field left out).
health ==
    [status |-> "ok",
     active_api |-> active_api,
     inactive_apis |-> SelectSeq(Chain, LAMBDA a : circuit_status(a) = "open"),
     circuit_breaker |-> [a \in Providers |-> circuit_status(a)],
     failure_counts |-> failure_counts]

---------------------------------------------------------------------------
(* Concurrent requests, with an observer of the calls made after a reset *)

\* trial[a] = -1: no reset of a's breaker is being followed. trial[a] = n > 0:
\* a breaker check reset a's breaker, and since then (that step included) n
\* GETs to a have been started and no GET to a has completed.
TrialWatch(a) ==
    IF /\ failure_counts[a] >= MAX_FAILURES
       /\ failure_counts'[a] = 0
       /\ last_failure_time'[a] = None
    THEN 1
    ELSE IF trial[a] = -1
    THEN -1
    ELSE IF \E c \in BagToSet(inflight) : Completed(c) /\ Chain[c.cur] = a
    THEN -1
    ELSE IF \E c \in BagToSet(inflight') : Suspended(c) /\ Chain[c.cur] = a
    THEN trial[a] + 1
    ELSE trial[a]

ProbeTick ==
    /\ Tick(Times)
    /\ trial' = [a \in Providers |-> TrialWatch(a)]
    /\ UNCHANGED <<scn, bvars, mvars>>

ProbeStart ==
    /\ \E q \in Cities : Start(q, NumRequests)
    /\ trial' = [a \in Providers |-> TrialWatch(a)]
    /\ UNCHANGED <<scn, bvars, mvars>>

ProbeRespond ==
    /\ \E c \in BagToSet(inflight), kind \in Outcomes : Respond(c, kind)
    /\ trial' = [a \in Providers |-> TrialWatch(a)]
    /\ UNCHANGED <<scn, bvars, mvars>>

ProbeNext == ProbeTick \/ ProbeStart \/ ProbeRespond

SpecProbe == Init /\ [][ProbeNext]_vars

---------------------------------------------------------------------------
(* Monitor service ("HeartBeat Service/main.py"): ping_health_endpoint and  *)
(* listen_to_websocket, two tasks on one event loop, and should_shutdown.   *)

\* How GET /health can end for the monitor: a 200, another status, the two
\* httpx exceptions the loop names, or any other exception (response.json()
\* raising on a 200 included).
PollOutcomes == {"200", "status", "timeout", "connect_error", "error"}

\* How websockets.connect can end, and how the wait on websocket.recv() can.
ConnectOutcomes == {"connected", "ws_error", "error"}
RecvOutcomes == {"message", "idle", "closed", "error"}

\* Variant of the doubling without the cap.
next_backoff_uncapped(b) == b * 2

\* min(backoff * 2, MAX_BACKOFF)
next_backoff(b) == IF b * 2 < MAX_BACKOFF THEN b * 2 ELSE MAX_BACKOFF

\* Variant of the except clauses of the poll loop without `except Exception`.
poll_catches_named(kind) == kind # "error"

\* Lines 48-58: whether an except clause of the poll loop catches the failure.
poll_catches(kind) == TRUE

\* Lines 42-58: the backoff after a health check that ended in kind, and
\* whether the "[ALERT]" line was logged.
poll_check(b, kind) ==
    CASE kind = "200" -> [backoff |-> 1, alert |-> FALSE]
      [] kind = "status" -> [backoff |-> next_backoff(b), alert |-> FALSE]
      [] kind = "timeout" -> [backoff |-> next_backoff(b), alert |-> FALSE]
      [] kind = "connect_error" -> [backoff |-> next_backoff(b), alert |-> TRUE]
      [] OTHER -> [backoff |-> next_backoff(b), alert |-> TRUE]

\* client.get of the poll loop completes: the loop handles the outcome and
\* suspends in wait_for(should_shutdown.wait(), timeout=backoff).
PollResponds(kind) ==
    /\ poll_pc = "get"
    /\ poll_last' = kind
    /\ poll_fails' = IF kind = "200" THEN 0
                     ELSE IF poll_fails < MaxFails THEN poll_fails + 1
                     ELSE MaxFails
    /\ IF poll_catches(kind)
       THEN /\ poll_backoff' = poll_check(poll_backoff, kind).backoff
            /\ poll_alert' = poll_check(poll_backoff, kind).alert
            /\ poll_pc' = "wait"
       ELSE /\ poll_pc' = "done"
            /\ UNCHANGED <<poll_backoff, poll_alert>>
    /\ UNCHANGED <<should_shutdown, poll_woke, ws_pc, ws_backoff, ws_last, ws_woke>>

\* The wait of the poll loop ends: should_shutdown is set and the loop exits,
\* or the timeout has elapsed and the loop polls again.
PollWaitEnds ==
    /\ poll_pc = "wait"
    /\ IF should_shutdown
       THEN poll_pc' = "done" /\ poll_woke' = "signal"
       ELSE poll_pc' = "get" /\ poll_woke' = "timeout"
    /\ UNCHANGED <<should_shutdown, poll_backoff, poll_last, poll_alert, poll_fails,
                   ws_pc, ws_backoff, ws_last, ws_woke>>

\* After the inner loop or an except clause (lines 108-113, 80): the stream
\* loop waits before it reconnects, unless should_shutdown is set.
ws_after_disconnect == IF should_shutdown THEN "done" ELSE "wait"

\* websockets.connect ends: connected (backoff reset, the inner loop entered
\* unless should_shutdown is set), or an exception (backoff doubled).
WsConnectEnds(kind) ==
    /\ ws_pc = "connect"
    /\ ws_last' = kind
    /\ IF kind = "connected"
       THEN /\ ws_backoff' = 1
            /\ ws_pc' = IF should_shutdown THEN "done" ELSE "recv"
       ELSE /\ ws_backoff' = next_backoff(ws_backoff)
            /\ ws_pc' = ws_after_disconnect
    /\ UNCHANGED <<should_shutdown, poll_pc, poll_backoff, poll_last, poll_alert,
                   poll_fails, poll_woke, ws_woke>>

\* wait_for(websocket.recv(), timeout=WS_TIMEOUT) ends: a message or the idle
\* timeout (the inner loop goes on unless should_shutdown is set),
\* ConnectionClosed (break, backoff untouched), or another exception (caught
\* by the outer except clauses, backoff doubled).
WsRecvEnds(kind) ==
    /\ ws_pc = "recv"
    /\ ws_last' = kind
    /\ ws_woke' = IF kind = "idle" THEN "timeout" ELSE kind
    /\ CASE kind \in {"message", "idle"} ->
               /\ ws_pc' = IF should_shutdown THEN "done" ELSE "recv"
               /\ UNCHANGED ws_backoff
         [] kind = "closed" ->
               /\ ws_pc' = ws_after_disconnect
               /\ UNCHANGED ws_backoff
         [] OTHER ->
               /\ ws_pc' = ws_after_disconnect
               /\ ws_backoff' = next_backoff(ws_backoff)
    /\ UNCHANGED <<should_shutdown, poll_pc, poll_backoff, poll_last, poll_alert,
                   poll_fails, poll_woke>>

\* The wait of the stream loop before a reconnect ends: should_shutdown is set
\* and the loop exits, or the timeout has elapsed and the loop reconnects.
WsWaitEnds ==
    /\ ws_pc = "wait"
    /\ IF should_shutdown
       THEN ws_pc' = "done" /\ ws_woke' = "signal"
       ELSE ws_pc' = "connect" /\ ws_woke' = "timeout"
    /\ UNCHANGED <<should_shutdown, poll_pc, poll_backoff, poll_last, poll_alert,
                   poll_fails, poll_woke, ws_backoff, ws_last>>

\* shutdown(): should_shutdown.set()
Shutdown ==
    /\ ~should_shutdown
    /\ should_shutdown' = TRUE
    /\ UNCHANGED <<poll_pc, poll_backoff, poll_last, poll_alert, poll_fails,
                   poll_woke, ws_pc, ws_backoff, ws_last, ws_woke>>

MonPollResponds ==
    (\E kind \in PollOutcomes : PollResponds(kind)) /\ UNCHANGED <<ovars, scn, bvars, trial>>

MonPollWaitEnds == PollWaitEnds /\ UNCHANGED <<ovars, scn, bvars, trial>>

MonWsConnectEnds ==
    (\E kind \in ConnectOutcomes : WsConnectEnds(kind)) /\ UNCHANGED <<ovars, scn, bvars, trial>>

MonWsRecvEnds ==
    (\E kind \in RecvOutcomes : WsRecvEnds(kind)) /\ UNCHANGED <<ovars, scn, bvars, trial>>

MonWsWaitEnds == WsWaitEnds /\ UNCHANGED <<ovars, scn, bvars, trial>>

MonShutdown == Shutdown /\ UNCHANGED <<ovars, scn, bvars, trial>>

MonNext ==
    \/ MonPollResponds
    \/ MonPollWaitEnds
    \/ MonWsConnectEnds
    \/ MonWsRecvEnds
    \/ MonWsWaitEnds
    \/ MonShutdown

SpecMonitor == Init /\ [][MonNext]_vars

---------------------------------------------------------------------------
(* Properties of the circuit breaker and of GET /weather *)

\* What a breaker check made now would answer.
Permit(a) == check_circuit_breaker(Breaker, a, now).ok

\* The Open state of a breaker: at the threshold, and the timer still running.
IsOpen(a) ==
    /\ failure_counts[a] >= MAX_FAILURES
    /\ last_failure_time[a] # None
    /\ now - last_failure_time[a] < RESET_TIMEOUT

SkipEvent(a) == [kind |-> "ProviderSkippedBreakerOpen", api |-> a]
FailEvent(a) == [kind |-> "ProviderFailed", api |-> a]
SelectEvent(a) == [kind |-> "ProviderSelected", api |-> a]
ExhaustedEvent == [kind |-> "AllExhausted", api |-> "none"]

Position(a) == CHOOSE i \in 1..Len(Chain) : Chain[i] = a

\* In a step: a new request arrived.
Arrived ==
    \/ BagCardinality(inflight') > BagCardinality(inflight)
    \/ /\ BagCardinality(inflight') = BagCardinality(inflight)
       /\ returned' # Nothing

\* C1: once a provider's count is at the threshold, a last failure time is
\* set; the breaker check answers false, changing nothing, while less than
\* RESET_TIMEOUT has elapsed since it; from then on the check answers true and
\* resets the count to 0 and the time to None, after which a further check
\* answers true again and one more recorded failure brings the count to 1
\* with the breaker still closed.
C1_OpenUntilTimeoutThenReset ==
    \A a \in Providers :
        failure_counts[a] >= MAX_FAILURES =>
            LET chk == check_circuit_breaker(Breaker, a, now)
                again == check_circuit_breaker(chk.b, a, now)
                refail == record_failure(chk.b, a, now)
            IN /\ last_failure_time[a] # None
               /\ now - last_failure_time[a] < RESET_TIMEOUT =>
                      ~chk.ok /\ chk.b = Breaker
               /\ now - last_failure_time[a] >= RESET_TIMEOUT =>
                      /\ chk.ok
                      /\ chk.b.fc[a] = 0 /\ chk.b.lft[a] = None
                      /\ again.ok /\ again.b = chk.b
                      /\ refail.fc[a] = 1
                      /\ check_circuit_breaker(refail, a, now).ok

\* C1 witness: the primary's breaker was opened by MAX_FAILURES failures and
\* a check made after the timeout has reset it.
C1_Witness ==
    /\ scn = MAX_FAILURES + 1
    /\ failure_counts[Primary] = 0
    /\ last_failure_time[Primary] = None

\* C2 as amended: after failures of the primary at t = 0, 1, 2 the count is 3
\* and the timer runs from t = 2, so the check answers false at t = 3 and
\* still at t = 301, and true from t = 302 on, where it resets the count;
\* after that reset one failed call leaves the breaker closed, the count
\* below the threshold and the timer at that failure's time.
C2_ScenarioAmended ==
    /\ scn = MAX_FAILURES =>
          /\ failure_counts[Primary] = MAX_FAILURES
          /\ last_failure_time[Primary] = MAX_FAILURES - 1
          /\ Permit(Primary) <=> now >= RESET_TIMEOUT + MAX_FAILURES - 1
    /\ scn = MAX_FAILURES + 1 =>
          /\ now >= RESET_TIMEOUT + MAX_FAILURES - 1
          /\ failure_counts[Primary] = 0
    /\ scn = MAX_FAILURES + 2 =>
          /\ Permit(Primary)
          /\ failure_counts[Primary] \in 1..(MAX_FAILURES - 1)
          /\ last_failure_time[Primary] >= RESET_TIMEOUT + MAX_FAILURES - 1
          /\ last_failure_time[Primary] <= now

\* C2 witness: the whole scenario has run, up to the failure after the reset.
C2_Witness == scn = MAX_FAILURES + 2 /\ failure_counts[Primary] = 1

\* C2 as stated: false at t = 3, true at t = 301, and the failure after the
\* reset reopens the breaker.
C2_ScenarioAsStated ==
    /\ scn = MAX_FAILURES /\ now = MAX_FAILURES => ~Permit(Primary)
    /\ scn = MAX_FAILURES /\ now = RESET_TIMEOUT + 1 => Permit(Primary)
    /\ scn = MAX_FAILURES + 2 => ~Permit(Primary)

\* C3: in the step in which a call returns a provider's payload, that
\* provider's GET was the call's last and ended ok, its count is 0, the last
\* event is its selection, and no later provider of the chain was consulted,
\* called, named in an event or changed in its breaker state; no call goes on
\* after a GET that ended ok.
C3_FirstSuccessWins ==
    [][/\ \A c \in BagToSet(inflight') : \A k \in 1..Len(c.outcomes) :
              c.outcomes[k] # "ok"
       /\ returned'.resp.status = 200 =>
              LET api == returned'.resp.source
              IN /\ api \in Providers
                 /\ returned'.calls # <<>>
                 /\ returned'.calls[Len(returned'.calls)] = api
                 /\ returned'.outcomes[Len(returned'.outcomes)] = "ok"
                 /\ returned'.events # <<>>
                 /\ returned'.events[Len(returned'.events)] = SelectEvent(api)
                 /\ failure_counts'[api] = 0
                 /\ \A j \in (Position(api) + 1)..Len(Chain) :
                       /\ Chain[j] \notin returned'.checked
                       /\ \A k \in 1..Len(returned'.calls) :
                             returned'.calls[k] # Chain[j]
                       /\ \A k \in 1..Len(returned'.events) :
                             returned'.events[k].api # Chain[j]
                       /\ failure_counts'[Chain[j]] = failure_counts[Chain[j]]
                       /\ last_failure_time'[Chain[j]] = last_failure_time[Chain[j]]
      ]_vars

\* C3 witness: the primary's payload is returned while the secondary's
\* breaker is at the threshold.
C3_Witness ==
    /\ returned.resp.status = 200
    /\ returned.resp.source = Chain[1]
    /\ failure_counts[Chain[2]] >= MAX_FAILURES

\* C4: a call whose GET to the primary failed and whose GET to the secondary
\* ended ok returns the secondary's payload, and its events are the failure
\* of the primary, then the selection of the secondary, and no other.
C4_FallbackEvents ==
    (returned.calls = <<Chain[1], Chain[2]>> /\ returned.outcomes = <<"fail", "ok">>) =>
        /\ returned.resp.status = 200
        /\ returned.resp.source = Chain[2]
        /\ returned.resp.temperature = "value"
        /\ returned.events = <<FailEvent(Chain[1]), SelectEvent(Chain[2])>>

C4_Witness ==
    /\ returned.calls = <<Chain[1], Chain[2]>>
    /\ returned.outcomes = <<"fail", "ok">>
    /\ returned.resp.status = 200

\* C5: a request that arrives while every breaker is open returns the 503
\* stub (no temperature, "Unavailable", its own query) without sending a GET
\* and without changing a breaker, after one skip event per provider in
\* chain order and the final event; one that arrives while only the primary's
\* breaker is open goes on to the secondary after the primary's skip event.
C5_AllOpenStub ==
    [][/\ (Arrived /\ \A a \in Providers : IsOpen(a)) =>
              /\ returned'.resp.status = 503
              /\ returned'.resp.temperature = "null"
              /\ returned'.resp.condition = "Unavailable"
              /\ returned'.city \in ScnCities
              /\ returned'.resp.city = returned'.city
              /\ returned'.calls = <<>>
              /\ returned'.events =
                    [i \in 1..Len(Chain) |-> SkipEvent(Chain[i])] \o <<ExhaustedEvent>>
              /\ inflight' = inflight
              /\ failure_counts' = failure_counts
              /\ last_failure_time' = last_failure_time
       /\ (Arrived /\ IsOpen(Chain[1]) /\ ~IsOpen(Chain[2])) =>
              \E c \in BagToSet(inflight') :
                  /\ Suspended(c)
                  /\ c.cur = 2
                  /\ c.calls = <<Chain[2]>>
                  /\ c.events = <<SkipEvent(Chain[1])>>
      ]_vars

\* C5 witness: a request for Paris returned the stub without any GET.
C5_Witness ==
    /\ returned.resp.status = 503
    /\ returned.calls = <<>>
    /\ returned.city = "Paris"
    /\ \A a \in Providers : IsOpen(a)

\* C6 as stated: in the step in which a provider's GET ends in a failure, the
\* provider's count grows and its last failure time becomes now.
C6_EveryFailureRecorded ==
    [][\A c \in BagToSet(inflight) :
          LET after == IF returned' # Nothing THEN returned'
                       ELSE CHOOSE c2 \in BagToSet(inflight') : Suspended(c2)
          IN (Completed(c) /\ after.outcomes[Len(after.outcomes)] = "fail") =>
                 /\ failure_counts'[Chain[c.cur]] > failure_counts[Chain[c.cur]]
                 /\ last_failure_time'[Chain[c.cur]] = now
      ]_vars

\* C7: when a call returns a provider's payload, that provider's count is 0
\* and a check of its breaker answers true, whatever the count was before.
C7_SuccessResets ==
    returned.resp.status = 200 =>
        /\ failure_counts[returned.resp.source] = 0
        /\ Permit(returned.resp.source)

\* C7 witness: the success was recorded on a count at or above the threshold.
C7_Witness ==
    /\ returned.resp.status = 200
    /\ returned.prior >= MAX_FAILURES

\* C8: a call that returns answers 200 or 503; it answers 503, with the stub
\* body after the final event, exactly when every provider of the chain was
\* skipped or failed, and otherwise the payload of the provider whose GET
\* ended ok, which is the first and only one.
EverySkippedOrFailed(r) ==
    \A a \in Providers :
        \/ \E k \in 1..Len(r.events) : r.events[k] = SkipEvent(a)
        \/ \E k \in 1..Len(r.calls) : r.calls[k] = a /\ r.outcomes[k] = "fail"

C8_AlwaysWellFormed ==
    returned # Nothing =>
        /\ returned.resp.status \in {200, 503}
        /\ Len(returned.outcomes) = Len(returned.calls)
        /\ returned.resp.status = 503 <=> EverySkippedOrFailed(returned)
        /\ returned.resp.status = 503 =>
              /\ returned.resp.temperature = "null"
              /\ returned.resp.condition = "Unavailable"
              /\ returned.resp.city = returned.city
              /\ returned.events[Len(returned.events)] = ExhaustedEvent
        /\ returned.resp.status = 200 =>
              /\ returned.resp.temperature = "value"
              /\ \E k \in 1..Len(returned.calls) :
                    /\ returned.outcomes[k] = "ok"
                    /\ returned.calls[k] = returned.resp.source
                    /\ \A j \in 1..Len(returned.calls) :
                          j # k => returned.outcomes[j] = "fail"
              /\ \A k \in 1..Len(returned.events) :
                    returned.events[k] # ExhaustedEvent

\* C8 witness: both providers were called, both failed, the stub is returned.
C8_Witness ==
    /\ returned.resp.status = 503
    /\ returned.calls = <<Chain[1], Chain[2]>>
    /\ returned.outcomes = <<"fail", "fail">>

---------------------------------------------------------------------------
(* Properties of the heartbeat broadcaster *)

\* How many times delivery to socket w was attempted in the sequence att.
Attempts(att, w) == Cardinality({i \in 1..Len(att) : att[i] = w})

\* C9: when a notify_heartbeat call had a delivery fail, at its end the sockets
\* whose delivery failed are out of websocket_clients, and every other socket
\* that was registered throughout the call had its delivery attempted in that
\* call and is still registered.
C9_FailureIsolated ==
    \A p \in Publishers :
        (ppc[p] = "done" /\ pdisc[p] # <<>>) =>
            /\ Range(pdisc[p]) \cap Range(websocket_clients) = {}
            /\ \A w \in steady[p] :
                   /\ w \in Range(websocket_clients)
                   /\ w \in Range(attempted[p])

\* C10: at the end of a notify_heartbeat call, whatever sockets connected or
\* disconnected while it ran, every socket that was registered throughout the
\* call had its delivery attempted exactly once.
C10_AttemptedExactlyOnce ==
    \A p \in Publishers :
        ppc[p] = "done" => \A w \in steady[p] : Attempts(attempted[p], w) = 1

---------------------------------------------------------------------------
(* Properties of GET /health and of the breaker's accounting *)

\* C11 as stated: GET /health reports a provider "open", and lists it as
\* inactive, exactly when its breaker is Open (at the threshold with the timer
\* still running).
C11_HealthReportsOpen ==
    \A a \in Providers :
        /\ health.circuit_breaker[a] = "open" <=> IsOpen(a)
        /\ a \in Range(health.inactive_apis) <=> IsOpen(a)

\* C17 as stated: after a breaker check has reset a provider's breaker, at
\* most one GET to that provider is started before a GET to it completes.
C17_OneTrialCall == \A a \in Providers : trial[a] <= 1

\* The failures fetch_from_<api> sees as a status or in the body.
CountedFailures == {"rate_limit", "auth", "body_error", "http_error"}

\* C18 as stated: a call to a provider that ends in a rate limit, a 401/403,
\* an error marker in the body or another HTTP error status raises that
\* provider's count by exactly one.
C18_EachFailureCountsOnce ==
    [][\A c \in BagToSet(inflight), kind \in CountedFailures :
          Respond(c, kind) =>
              failure_counts'[Chain[c.cur]] = failure_counts[Chain[c.cur]] + 1
      ]_vars

\* C19 as stated: a provider whose count is 0 has no last failure time.
C19_ClearedWhenClosed ==
    \A a \in Providers : failure_counts[a] = 0 => last_failure_time[a] = None

\* C20 as stated: no socket is in websocket_clients twice, and the socket of
\* a websocket_endpoint handler that has exited is not in it.
C20_OnlyLiveSockets ==
    /\ \A w \in Sockets : Attempts(websocket_clients, w) <= 1
    /\ \A w \in Sockets : hpc[w] = "exited" => w \notin Range(websocket_clients)

---------------------------------------------------------------------------
(* Properties of the monitor service *)

\* C12 as amended: the poll loop's backoff is always between 1 and
\* MAX_BACKOFF; after k health checks failed in a row it is 2^k (2, 4, 8,
\* ...) or MAX_BACKOFF if that is less, and after a 200 it is 1 again.
C12_PollBackoff ==
    /\ 1 <= poll_backoff
    /\ poll_backoff <= MAX_BACKOFF
    /\ poll_fails < MaxFails =>
           poll_backoff = IF 2 ^ poll_fails < MAX_BACKOFF
                          THEN 2 ^ poll_fails ELSE MAX_BACKOFF
    /\ poll_last = "200" => poll_backoff = 1

\* C12 witness: three health checks have failed in a row and the loop waits
\* with a backoff of 8.
C12_Witness == poll_fails = 3 /\ poll_backoff = 8 /\ poll_pc = "wait"

\* C12 as stated: the backoff is always between 1 and MAX_BACKOFF, the waits
\* after the first, second and third failure in a row are of 1, 2 and 4, and
\* after a 200 the backoff is 1.
C12_AsStated ==
    /\ 1 <= poll_backoff
    /\ poll_backoff <= MAX_BACKOFF
    /\ poll_fails \in 1..3 => poll_backoff = 2 ^ (poll_fails - 1)
    /\ poll_last = "200" => poll_backoff = 1

\* C13 as stated: when the established connection of the stream loop is
\* closed or broken, the loop doubles its backoff (up to MAX_BACKOFF) and
\* waits before it reconnects; an idle timeout leaves the backoff and the
\* connection alone; a successful connect sets the backoff to 1.
C13_StreamBackoff ==
    [][/\ (ws_pc = "recv" /\ ws_last' \in {"closed", "error"}) =>
              /\ ws_backoff' = next_backoff(ws_backoff)
              /\ ~should_shutdown => ws_pc' = "wait"
       /\ (ws_pc = "recv" /\ ws_last' = "idle") =>
              /\ ws_backoff' = ws_backoff
              /\ ws_pc' # "wait" /\ ws_pc' # "connect"
       /\ (ws_pc = "connect" /\ ws_last' = "connected") => ws_backoff' = 1
      ]_vars

\* C14 as stated: a health check that ends in anything but a 200 doubles the
\* backoff (up to MAX_BACKOFF) and logs the alert; a 200 logs no alert and
\* sets the backoff to 1.
C14_EveryFailureAlerts ==
    [][(poll_pc = "get" /\ poll_pc' # "get") =>
           IF poll_last' = "200"
           THEN ~poll_alert' /\ poll_backoff' = 1
           ELSE poll_alert' /\ poll_backoff' = next_backoff(poll_backoff)
      ]_vars

\* C15 as stated: with should_shutdown set, a loop that leaves a wait (the
\* wait before the next poll or reconnect, or the stream loop's wait for a
\* message) leaves it because of should_shutdown and exits, and no loop
\* starts another GET /health or another connect.
C15_ShutdownEndsWaits ==
    [][should_shutdown =>
           /\ (poll_pc = "wait" /\ poll_pc' # "wait") =>
                  poll_woke' = "signal" /\ poll_pc' = "done"
           /\ (ws_pc \in {"wait", "recv"} /\ ws_pc' # ws_pc) =>
                  ws_woke' = "signal" /\ ws_pc' = "done"
           /\ poll_pc # "get" => poll_pc' # "get"
           /\ ws_pc # "connect" => ws_pc' # "connect"
      ]_vars

\* C16: a loop has exited only if should_shutdown is set; while it is not
\* set, a health check, a connect or a wait for a message that ends in a
\* failure leaves its loop in the wait before the next attempt, and the end
\* of that wait starts the next attempt.
C16_FailuresNotFatal ==
    [][/\ (poll_pc' = "done" \/ ws_pc' = "done") => should_shutdown'
       /\ (poll_pc = "get" /\ poll_pc' # "get") => poll_pc' = "wait"
       /\ (poll_pc = "wait" /\ poll_pc' # "wait" /\ ~should_shutdown) =>
              poll_pc' = "get"
       /\ (ws_pc = "connect" /\ ws_pc' # "connect" /\ ws_last' # "connected"
               /\ ~should_shutdown) =>
              ws_pc' = "wait"
       /\ (ws_pc = "recv" /\ ws_last' \in {"closed", "error"} /\ ~should_shutdown) =>
              ws_pc' = "wait"
       /\ (ws_pc = "wait" /\ ws_pc' # "wait" /\ ~should_shutdown) =>
              ws_pc' = "connect"
      ]_vars

\* C16 witness: both loops are running after failures of every kind: the
\* poll loop is polling again after an unexpected exception, the stream loop
\* is reconnecting after its connection was closed.
C16_Witness ==
    /\ ~should_shutdown
    /\ poll_last = "error" /\ poll_pc = "get" /\ poll_woke = "timeout"
    /\ ws_last = "closed" /\ ws_pc = "connect" /\ ws_woke = "timeout"

=============================================================================
